---------------------------- MODULE Spec2Model ----------------------------
(***************************************************************************)
(* Model of src/src/shuffle.cpp: the lazily seeded process-wide RNG        *)
(* (get_rng) and the three in-place shuffles shuffle_random_sort,          *)
(* shuffle_naive_swap and shuffle_fisher_yates.  Every thread runs the     *)
(* functions statement by statement; a random draw is a nondeterministic   *)
(* choice over the values the distribution can return.                     *)
(***************************************************************************)
EXTENDS Integers, Sequences, FiniteSets, Bags, TLC

\* ------------------------------------------------------------------ bounds
\* Longest sequence a caller passes.
MaxLen == 3
\* Callers pass sequences over 1..MaxVal (repeats included) and 1, 2, .., n.
MaxVal == 2
\* Width of size_t in the model (the arithmetic of lines 28, 44, 57 is mod 2^w).
SizeBits == 16

SizeModulus == 2 ^ SizeBits
\* Draws of one call the history variable draws records in full.
MaxDraws == MaxLen + 1
\* Raw outputs of rng() the model tries at line 58: every residue mod (i + 1).
RawMax == 2 * MaxLen - 1

\* ----------------------------------------------------------------- threads
MainThread == "main"
Threads == {"main", "other"}

Algorithms == {"random_sort", "naive_swap", "fisher_yates"}

\* ------------------------------------------------------------------ inputs
Iota(n) == [k \in 1..n |-> k]
Inputs == UNION {[1..n -> 1..MaxVal] \cup {Iota(n)} : n \in 0..MaxLen}
\* What the two racing threads pass: the empty sequence or {1, 2}.
ThreadInputs == {<< >>, Iota(2)}

\* ------------------------------------------------------------- pure helpers
\* array.empty()
\* (Faulty variant: the test left out.)
NeverEmpty(a) == FALSE
IsEmpty(a) == Len(a) = 0

\* size_t subtraction: array.size() - 1 wraps when the size is 0.
SizeSub(a, b) == (a - b) % SizeModulus

\* An index a vector of this length can be subscripted with.
InRange(a, idx) == idx \in 0..(Len(a) - 1)

\* array[idx], 0-based.
At(a, idx) == a[idx + 1]

\* std::uniform_int_distribution<size_t> dist(lo, hi): the values dist(rng) returns.
Dist(lo, hi) == lo..hi

\* std::swap(array[x], array[y])
\* (Faulty variant: no temporary, array[x]'s value is lost.)
SwapLost(a, x, y) == [a EXCEPT ![x + 1] = a[y + 1]]
Swap(a, x, y) == [a EXCEPT ![x + 1] = a[y + 1], ![y + 1] = a[x + 1]]

\* result.push_back(array[random_index])
\* (Faulty variant: pushes the index.)
RandomSortPushIndex(res, a, r) == Append(res, r)
RandomSortPush(res, a, r) == Append(res, At(a, r))

\* used_indices.insert(random_index).second: TRUE when the index is new.
\* (Faulty variant: no de-duplication.)
InsertAlwaysNew(used, r) == TRUE
InsertIsNew(used, r) == r \notin used

\* The values random_index takes at line 47 in iteration i of a size-n array:
\* dist is built once at line 44 over the whole array.
\* (Variant: the shrinking range [i, n) of the unbiased forward shuffle.)
NaiveDrawRangeSuffix(ii, n) == Dist(ii, SizeSub(n, 1))
NaiveDrawRange(ii, n) == Dist(0, SizeSub(n, 1))

\* The loop tests of lines 30, 46 and 57.
RsLoopTest(res, a) == Len(res) < Len(a)
\* (Faulty variant of line 46: i <= array.size().)
NsLoopTestInclusive(ii, n) == ii <= n
NsLoopTest(ii, n) == ii < n
FyLoopTest(ii) == ii > 0

\* rng() % (i + 1), line 58.
\* (Faulty variants: rng() % i and rng() % (i + 2).)
FYIndexOffByOne(raw, ii) == raw % ii
FYIndexPastEnd(raw, ii) == raw % (ii + 2)
FYIndex(raw, ii) == raw % (ii + 1)

\* The raw 32-bit outputs of rng() tried.
RawDraws == 0..RawMax

\* ------------------------------------------------------------------- state
VARIABLES
    rng_initialized,  \* the flag of line 10
    rng,              \* the generator of line 9: how often it was seeded, and
                      \* whether it was drawn from since the last seed
    flag_writers,     \* history: the threads that executed line 17
    pc,               \* per thread: the statement it is at
    alg,              \* per thread: the function it is in
    input,            \* per thread, history: the sequence as passed
    array,            \* per thread: the caller's vector
    result,           \* per thread: line 25
    used_indices,     \* per thread: line 26
    i,                \* per thread: the loop index of lines 46 and 57
    random_index,     \* per thread: lines 31, 47, 58
    draws,            \* per thread, history: the first MaxDraws indices drawn
    num_draws         \* per thread, history: draws made, saturating at MaxDraws + 1

vars == << rng_initialized, rng, flag_writers, pc, alg, input, array, result,
           used_indices, i, random_index, draws, num_draws >>

shared == << rng_initialized, rng, flag_writers >>
locals == << result, used_indices, i, random_index >>
history == << draws, num_draws >>

Init ==
    /\ rng_initialized = FALSE
    /\ rng = [seeds |-> 0, drawn |-> FALSE]
    /\ flag_writers = {}
    /\ pc = [t \in Threads |-> "idle"]
    /\ alg = [t \in Threads |-> "fisher_yates"]
    /\ input = [t \in Threads |-> << >>]
    /\ array = [t \in Threads |-> << >>]
    /\ result = [t \in Threads |-> << >>]
    /\ used_indices = [t \in Threads |-> {}]
    /\ i = [t \in Threads |-> 0]
    /\ random_index = [t \in Threads |-> 0]
    /\ draws = [t \in Threads |-> << >>]
    /\ num_draws = [t \in Threads |-> 0]

\* ----------------------------------------------------------------- caller
\* The caller invokes algorithm f on sequence a; locals are fresh per call.
Invoke(t, f, a) ==
    /\ pc' = [pc EXCEPT ![t] = "entry"]
    /\ alg' = [alg EXCEPT ![t] = f]
    /\ input' = [input EXCEPT ![t] = a]
    /\ array' = [array EXCEPT ![t] = a]
    /\ result' = [result EXCEPT ![t] = << >>]
    /\ used_indices' = [used_indices EXCEPT ![t] = {}]
    /\ i' = [i EXCEPT ![t] = 0]
    /\ random_index' = [random_index EXCEPT ![t] = 0]
    /\ draws' = [draws EXCEPT ![t] = << >>]
    /\ num_draws' = [num_draws EXCEPT ![t] = 0]
    /\ UNCHANGED shared

\* A single-threaded caller: one call after another, as the tests make them.
Call(t) ==
    /\ pc[t] = "idle"
    /\ \E f \in Algorithms, a \in Inputs : Invoke(t, f, a)

\* The caller is done with the shuffled vector (the tests' vectors go out of
\* scope); the generator and its flag live on.
Release(t) ==
    /\ pc[t] = "done"
    /\ pc' = [pc EXCEPT ![t] = "idle"]
    /\ input' = [input EXCEPT ![t] = << >>]
    /\ array' = [array EXCEPT ![t] = << >>]
    /\ result' = [result EXCEPT ![t] = << >>]
    /\ used_indices' = [used_indices EXCEPT ![t] = {}]
    /\ i' = [i EXCEPT ![t] = 0]
    /\ random_index' = [random_index EXCEPT ![t] = 0]
    /\ draws' = [draws EXCEPT ![t] = << >>]
    /\ num_draws' = [num_draws EXCEPT ![t] = 0]
    /\ UNCHANGED << shared, alg >>

\* A thread's first and only call, racing with the other thread's.
FirstCall(t) ==
    /\ pc[t] = "idle"
    /\ \E f \in Algorithms, a \in ThreadInputs : Invoke(t, f, a)

\* Lines 23, 41, 53: if (array.empty()) return;
Entry(t) ==
    /\ pc[t] = "entry"
    /\ pc' = [pc EXCEPT ![t] = IF IsEmpty(array[t]) THEN "done" ELSE "rng_check"]
    /\ UNCHANGED << shared, alg, input, array, locals, history >>

\* ---------------------------------------------------------------- get_rng
\* What a read of rng_initialized by thread t can return.  The flag is a plain
\* bool: a write by another thread is unordered with this read (a data race),
\* so the read may still see the initial FALSE.
FlagReads(t) ==
    {rng_initialized} \cup (IF flag_writers \subseteq {t} THEN {} ELSE {FALSE})

\* Line 14: if (!rng_initialized)
\* (Variant: a guarded test-and-set, as an init-once primitive would do.)
GetRngCheckAndSet(t) ==
    /\ pc[t] = "rng_check"
    /\ pc' = [pc EXCEPT ![t] = IF rng_initialized THEN "rng_return" ELSE "rng_seed"]
    /\ rng_initialized' = TRUE
    /\ UNCHANGED << rng, flag_writers, alg, input, array, locals, history >>
GetRngCheck(t) ==
    /\ pc[t] = "rng_check"
    /\ \E seen \in FlagReads(t) :
         pc' = [pc EXCEPT ![t] = IF seen THEN "rng_return" ELSE "rng_seed"]
    /\ UNCHANGED << shared, alg, input, array, locals, history >>

\* Lines 15-16: rng.seed(steady_clock::now()...)
GetRngSeed(t) ==
    /\ pc[t] = "rng_seed"
    /\ rng' = [seeds |-> rng.seeds + 1, drawn |-> FALSE]
    /\ pc' = [pc EXCEPT ![t] = "rng_flag"]
    /\ UNCHANGED << rng_initialized, flag_writers, alg, input, array, locals, history >>

\* Line 17: rng_initialized = true;
\* (Faulty variant: the flag is never set.)
GetRngSetFlagSkipped(t) ==
    /\ pc[t] = "rng_flag"
    /\ pc' = [pc EXCEPT ![t] = "rng_return"]
    /\ UNCHANGED << shared, alg, input, array, locals, history >>
GetRngSetFlag(t) ==
    /\ pc[t] = "rng_flag"
    /\ rng_initialized' = TRUE
    /\ flag_writers' = flag_writers \cup {t}
    /\ pc' = [pc EXCEPT ![t] = "rng_return"]
    /\ UNCHANGED << rng, alg, input, array, locals, history >>

\* Line 19, and the caller's set-up after it: lines 28, 44-46 (i = 0), 57
\* (i = array.size() - 1).
GetRngReturn(t) ==
    /\ pc[t] = "rng_return"
    /\ pc' = [pc EXCEPT ![t] = CASE alg[t] = "random_sort" -> "rs_loop"
                                 [] alg[t] = "naive_swap" -> "ns_loop"
                                 [] OTHER -> "fy_loop"]
    /\ i' = [i EXCEPT ![t] = IF alg[t] = "fisher_yates"
                             THEN SizeSub(Len(array[t]), 1) ELSE 0]
    /\ UNCHANGED << shared, alg, input, array, result, used_indices,
                    random_index, history >>

\* One draw from the shared generator yielding index r.
Draw(t, r) ==
    /\ rng' = [rng EXCEPT !.drawn = TRUE]
    /\ random_index' = [random_index EXCEPT ![t] = r]
    /\ draws' = [draws EXCEPT ![t] =
                    IF Len(@) < MaxDraws THEN Append(@, r) ELSE @]
    /\ num_draws' = [num_draws EXCEPT ![t] =
                    IF @ <= MaxDraws THEN @ + 1 ELSE @]
    /\ UNCHANGED << rng_initialized, flag_writers >>

\* ------------------------------------------------------ shuffle_random_sort
\* Lines 30-31: the loop test holds; random_index = dist(rng).
RsDraw(t) ==
    /\ pc[t] = "rs_loop"
    /\ RsLoopTest(result[t], array[t])
    /\ \E r \in Dist(0, SizeSub(Len(array[t]), 1)) : Draw(t, r)
    /\ pc' = [pc EXCEPT ![t] = "rs_insert"]
    /\ UNCHANGED << alg, input, array, result, used_indices, i >>

\* Lines 32-34: a new index appends its element; a seen one appends nothing.
\* Subscripting past the end is undefined: the call is lost ("ub").
RsInsert(t) ==
    /\ pc[t] = "rs_insert"
    /\ IF InsertIsNew(used_indices[t], random_index[t])
       THEN /\ used_indices' = [used_indices EXCEPT ![t] = @ \cup {random_index[t]}]
            /\ IF InRange(array[t], random_index[t])
               THEN /\ result' = [result EXCEPT ![t] =
                                    RandomSortPush(@, array[t], random_index[t])]
                    /\ pc' = [pc EXCEPT ![t] = "rs_loop"]
               ELSE /\ pc' = [pc EXCEPT ![t] = "ub"]
                    /\ UNCHANGED result
       ELSE /\ pc' = [pc EXCEPT ![t] = "rs_loop"]
            /\ UNCHANGED << result, used_indices >>
    /\ UNCHANGED << shared, alg, input, array, i, random_index, history >>

\* Lines 30, 37: the loop test fails; array = result.
RsAssign(t) ==
    /\ pc[t] = "rs_loop"
    /\ ~RsLoopTest(result[t], array[t])
    /\ array' = [array EXCEPT ![t] = result[t]]
    /\ pc' = [pc EXCEPT ![t] = "done"]
    /\ UNCHANGED << shared, alg, input, locals, history >>

\* ------------------------------------------------------- shuffle_naive_swap
\* Lines 46-47: i < array.size(); random_index = dist(rng).
NsDraw(t) ==
    /\ pc[t] = "ns_loop"
    /\ NsLoopTest(i[t], Len(array[t]))
    /\ \E r \in NaiveDrawRange(i[t], Len(array[t])) : Draw(t, r)
    /\ pc' = [pc EXCEPT ![t] = "ns_swap"]
    /\ UNCHANGED << alg, input, array, result, used_indices, i >>

\* Line 48 and ++i.
NsSwap(t) ==
    /\ pc[t] = "ns_swap"
    /\ IF InRange(array[t], i[t]) /\ InRange(array[t], random_index[t])
       THEN /\ array' = [array EXCEPT ![t] = Swap(@, i[t], random_index[t])]
            /\ i' = [i EXCEPT ![t] = (@ + 1) % SizeModulus]
            /\ pc' = [pc EXCEPT ![t] = "ns_loop"]
       ELSE /\ pc' = [pc EXCEPT ![t] = "ub"]
            /\ UNCHANGED << array, i >>
    /\ UNCHANGED << shared, alg, input, result, used_indices, random_index, history >>

\* Line 46: the loop test fails; return.
NsExit(t) ==
    /\ pc[t] = "ns_loop"
    /\ ~NsLoopTest(i[t], Len(array[t]))
    /\ pc' = [pc EXCEPT ![t] = "done"]
    /\ UNCHANGED << shared, alg, input, array, locals, history >>

\* ----------------------------------------------------- shuffle_fisher_yates
\* Lines 57-58: i > 0; random_index = rng() % (i + 1).
FyDraw(t) ==
    /\ pc[t] = "fy_loop"
    /\ FyLoopTest(i[t])
    /\ \E raw \in RawDraws : Draw(t, FYIndex(raw, i[t]))
    /\ pc' = [pc EXCEPT ![t] = "fy_swap"]
    /\ UNCHANGED << alg, input, array, result, used_indices, i >>

\* Line 59 and --i.
FySwap(t) ==
    /\ pc[t] = "fy_swap"
    /\ IF InRange(array[t], i[t]) /\ InRange(array[t], random_index[t])
       THEN /\ array' = [array EXCEPT ![t] = Swap(@, i[t], random_index[t])]
            /\ i' = [i EXCEPT ![t] = SizeSub(@, 1)]
            /\ pc' = [pc EXCEPT ![t] = "fy_loop"]
       ELSE /\ pc' = [pc EXCEPT ![t] = "ub"]
            /\ UNCHANGED << array, i >>
    /\ UNCHANGED << shared, alg, input, result, used_indices, random_index, history >>

\* Line 57: the loop test fails; return.
FyExit(t) ==
    /\ pc[t] = "fy_loop"
    /\ ~FyLoopTest(i[t])
    /\ pc' = [pc EXCEPT ![t] = "done"]
    /\ UNCHANGED << shared, alg, input, array, locals, history >>

\* ---------------------------------------------------------- specifications
Step(t) ==
    \/ Entry(t)
    \/ GetRngCheck(t)
    \/ GetRngSeed(t)
    \/ GetRngSetFlag(t)
    \/ GetRngReturn(t)
    \/ RsDraw(t)
    \/ RsInsert(t)
    \/ RsAssign(t)
    \/ NsDraw(t)
    \/ NsSwap(t)
    \/ NsExit(t)
    \/ FyDraw(t)
    \/ FySwap(t)
    \/ FyExit(t)

\* The program as designed: one thread, any sequence of calls.
Next == Call(MainThread) \/ Step(MainThread) \/ Release(MainThread)
Spec == Init /\ [][Next]_vars

\* The same, with the thread never stopping in the middle of a call.
FairSpec == Spec /\ WF_vars(Step(MainThread))

\* Two threads, each making its first call, with no synchronisation.
ThreadNext == \E t \in Threads : FirstCall(t) \/ Step(t)
ThreadSpec == Init /\ [][ThreadNext]_vars


\* ------------------------------------------------- what the claims speak of
\* The multiset of a sequence's values.
BagOf(a) ==
    [v \in {a[k] : k \in DOMAIN a} |-> Cardinality({k \in DOMAIN a : a[k] = v})]

Distinct(a) == \A x, y \in DOMAIN a : a[x] = a[y] => x = y

\* Every reordering of a.
Perms(a) ==
    {[k \in DOMAIN a |-> a[s[k]]] :
        s \in {f \in [DOMAIN a -> DOMAIN a] : \A x, y \in DOMAIN a : f[x] = f[y] => x = y}}

RECURSIVE Factorial(_)
Factorial(n) == IF n <= 0 THEN 1 ELSE n * Factorial(n - 1)

\* The indices line 58 can produce at step i.
FYTargets(ii) == {FYIndex(raw, ii) : raw \in RawDraws}

\* The draw sequences of one shuffle_fisher_yates call on n elements: the k-th
\* draw belongs to step i = n - k.
FYDrawSeqs(n) ==
    {d \in [1..(n - 1) -> 0..(n - 1)] : \A k \in 1..(n - 1) : d[k] \in FYTargets(n - k)}

\* The loop of lines 57-60 run on a with the draws d, from the k-th draw on.
RECURSIVE FYFrom(_, _, _)
FYFrom(a, d, k) ==
    IF k > Len(d) THEN a ELSE FYFrom(Swap(a, Len(a) - k, d[k]), d, k + 1)
FYRun(a, d) == FYFrom(a, d, 1)

\* The draw sequences of one shuffle_naive_swap call on n elements.
NaiveDrawSeqs(n) ==
    {d \in [1..n -> 0..(n - 1)] : \A k \in 1..n : d[k] \in NaiveDrawRange(k - 1, n)}

\* The loop of lines 46-49 run on a with the draws d, from the k-th draw on.
RECURSIVE NaiveFrom(_, _, _)
NaiveFrom(a, d, k) ==
    IF k > Len(d) THEN a ELSE NaiveFrom(Swap(a, k - 1, d[k]), d, k + 1)
NaiveRun(a, d) == NaiveFrom(a, d, 1)

\* How many draw sequences make shuffle_naive_swap turn a into p.
NaiveCount(a, p) == Cardinality({d \in NaiveDrawSeqs(Len(a)) : NaiveRun(a, d) = p})

Returned(t) == pc[t] = "done"

\* ------------------------------------------------------------------ claims
\* C1: after any of the three shuffles returns, the sequence has the length
\* and the multiset of values it was passed with, repeated values included.
C1_PermutationInvariant ==
    \A t \in Threads :
        Returned(t) =>
            /\ Len(array[t]) = Len(input[t])
            /\ BagOf(array[t]) = BagOf(input[t])

\* A sequence with a repeated value came back reordered.
C1_Witness ==
    /\ Returned(MainThread)
    /\ Len(input[MainThread]) = MaxLen
    /\ ~Distinct(input[MainThread])
    /\ array[MainThread] # input[MainThread]

\* C2: a sequence of length 0 or 1 comes back exactly as passed, from each
\* of the three shuffles, whatever was drawn.
C2_TrivialInputUnchanged ==
    \A t \in Threads :
        (Returned(t) /\ Len(input[t]) <= 1) => array[t] = input[t]

\* shuffle_random_sort returned a one-element sequence after drawing.
C2_Witness ==
    /\ Returned(MainThread)
    /\ alg[MainThread] = "random_sort"
    /\ Len(input[MainThread]) = 1
    /\ num_draws[MainThread] = 1

\* C3: on n distinct elements the draw sequences of shuffle_fisher_yates
\* (draw k in [0, n - k]) and the n! orders correspond one to one: the output
\* is the one the recorded draws determine, no other draw sequence gives it,
\* every order is given by some draw sequence, and there are n! of each.
C3_FisherYatesBijection ==
    \A t \in Threads :
        (Returned(t) /\ alg[t] = "fisher_yates" /\ Distinct(input[t])) =>
            LET n == Len(input[t]) IN
            /\ array[t] = FYRun(input[t], draws[t])
            /\ draws[t] \in FYDrawSeqs(n)
            /\ \A d \in FYDrawSeqs(n) : FYRun(input[t], d) = array[t] => d = draws[t]
            /\ \A p \in Perms(input[t]) : \E d \in FYDrawSeqs(n) : FYRun(input[t], d) = p
            /\ Cardinality(FYDrawSeqs(n)) = Factorial(n)

\* shuffle_fisher_yates returned 1, 2, .., MaxLen in another order.
C3_Witness ==
    /\ Returned(MainThread)
    /\ alg[MainThread] = "fisher_yates"
    /\ input[MainThread] = Iota(MaxLen)
    /\ array[MainThread] # input[MainThread]

\* C4 as claimed: on n >= 2 distinct elements the n^n draw sequences of
\* shuffle_naive_swap do not split evenly over the orders.
C4_NonUniformFromTwo ==
    \A t \in Threads :
        (Returned(t) /\ alg[t] = "naive_swap" /\ Distinct(input[t])
                     /\ Len(input[t]) >= 2) =>
            \E q \in Perms(input[t]) :
                NaiveCount(input[t], q) # NaiveCount(input[t], array[t])

\* C4 (amended): on n >= 3 distinct elements the n^n draw sequences of
\* shuffle_naive_swap do not split evenly over the orders: some order is given
\* by a different number of draw sequences than the order just produced.
C4_NonUniformFromThree ==
    \A t \in Threads :
        (Returned(t) /\ alg[t] = "naive_swap" /\ Distinct(input[t])
                     /\ Len(input[t]) >= 3) =>
            \E q \in Perms(input[t]) :
                NaiveCount(input[t], q) # NaiveCount(input[t], array[t])

\* shuffle_naive_swap returned three or more distinct elements.
C4_Witness ==
    /\ Returned(MainThread)
    /\ alg[MainThread] = "naive_swap"
    /\ Distinct(input[MainThread])
    /\ Len(input[MainThread]) >= 3
    /\ num_draws[MainThread] = Len(input[MainThread])

\* C5 as claimed: every call returns, whatever is drawn.
C5_EveryCallReturns ==
    \A t \in Threads : (pc[t] = "entry") ~> Returned(t)

\* C5 (amended): shuffle_naive_swap makes exactly n draws and
\* shuffle_fisher_yates exactly n - 1 (none on the empty sequence), and both
\* return; shuffle_random_sort returns after no fewer than n draws, exactly n
\* when n <= 1, and nothing bounds its draws from above.
C5_DrawCounts ==
    \A t \in Threads :
        LET n == Len(input[t])
            fy == IF n = 0 THEN 0 ELSE n - 1 IN
        /\ alg[t] = "naive_swap" =>
              num_draws[t] <= n /\ (Returned(t) => num_draws[t] = n)
        /\ alg[t] = "fisher_yates" =>
              num_draws[t] <= fy /\ (Returned(t) => num_draws[t] = fy)
        /\ (alg[t] = "random_sort" /\ Returned(t)) =>
              num_draws[t] >= n /\ (n <= 1 => num_draws[t] = n)

C5_BoundedDraws ==
    /\ []C5_DrawCounts
    /\ \A t \in Threads :
          (pc[t] = "entry" /\ alg[t] # "random_sort") ~> Returned(t)

\* shuffle_random_sort returned after more draws than elements.
C5_Witness ==
    /\ Returned(MainThread)
    /\ alg[MainThread] = "random_sort"
    /\ Len(input[MainThread]) >= 2
    /\ num_draws[MainThread] > Len(input[MainThread])

\* C6: in a single-threaded run the generator is seeded at most once, before
\* any draw, by the first call that reaches get_rng; once the flag is set no
\* call seeds again; a call on the empty sequence returns without touching the
\* generator.
C6_SeedState ==
    /\ rng.seeds <= 1
    /\ rng_initialized => rng.seeds = 1
    /\ (rng.drawn \/ \E t \in Threads : num_draws[t] > 0) =>
          (rng_initialized /\ rng.seeds = 1)

C6_SeedStep ==
    /\ rng_initialized => (rng_initialized' /\ rng'.seeds = rng.seeds)
    /\ \A t \in Threads :
          /\ (pc[t] = "rng_check" /\ pc'[t] # "rng_check") =>
                pc'[t] = (IF rng_initialized THEN "rng_return" ELSE "rng_seed")
          /\ (pc[t] = "entry" /\ pc'[t] # "entry" /\ Len(input[t]) = 0) =>
                (pc'[t] = "done" /\ rng' = rng /\ rng_initialized' = rng_initialized)

C6_SeededOnce == []C6_SeedState /\ [][C6_SeedStep]_vars

\* A later call is handed the generator an earlier call drew from, unseeded.
C6_Witness ==
    /\ pc[MainThread] = "rng_return"
    /\ num_draws[MainThread] = 0
    /\ rng.drawn
    /\ rng.seeds = 1

\* C7: get_rng is not guarded.  Between a thread's test of the flag at line 14
\* and its write at line 17 the flag still reads false, so every thread that
\* tested it in between seeds too: the flag is set only by line 17, and the
\* generator has been seeded once per thread that got past the test.
C7_UnguardedInit ==
    /\ rng_initialized <=> flag_writers # {}
    /\ rng.seeds = Cardinality({t \in Threads : pc[t] = "rng_flag"} \cup flag_writers)

\* The second seed, made after the first thread was handed the generator and
\* drew from it.
C7_Witness ==
    \E t, u \in Threads :
        /\ t # u
        /\ num_draws[t] > 0
        /\ pc[u] = "rng_flag"
        /\ rng.seeds = 2
        /\ ~rng.drawn

\* C8: no shuffle subscripts the sequence out of range: at every subscript
\* the loop index and the drawn index lie in [0, n), and a call on the empty
\* sequence returns before get_rng, before n - 1 is computed and before any
\* draw.
C8_IndicesInRange ==
    \A t \in Threads :
        /\ pc[t] # "ub"
        /\ pc[t] \in {"ns_swap", "fy_swap"} =>
              InRange(array[t], i[t]) /\ InRange(array[t], random_index[t])
        /\ pc[t] = "rs_insert" => InRange(array[t], random_index[t])
        /\ Len(input[t]) = 0 =>
              /\ pc[t] \in {"idle", "entry", "done"}
              /\ num_draws[t] = 0
              /\ i[t] = 0

\* shuffle_fisher_yates is about to swap the last position with itself.
C8_Witness ==
    /\ pc[MainThread] = "fy_swap"
    /\ i[MainThread] = Len(array[MainThread]) - 1
    /\ random_index[MainThread] = i[MainThread]
    /\ Len(array[MainThread]) = MaxLen

\* The distinct indices of d, in the order of their first appearance.
RECURSIVE FirstDrawOrder(_)
FirstDrawOrder(d) ==
    IF d = << >> THEN << >>
    ELSE LET front == SubSeq(d, 1, Len(d) - 1)
             rest == FirstDrawOrder(front) IN
         IF \E k \in DOMAIN front : front[k] = d[Len(d)]
         THEN rest ELSE Append(rest, d[Len(d)])

\* The elements of a at the indices of order.
Pick(a, order) == [k \in 1..Len(order) |-> At(a, order[k])]

\* C9: shuffle_random_sort on n >= 1 elements returns exactly when n distinct
\* indices have been drawn; its output lists the input's elements at the
\* distinct indices in the order they were first drawn; a repeated index
\* appends nothing; the caller's sequence is untouched until it is replaced.
C9_FirstDrawOrder ==
    \A t \in Threads :
        (alg[t] = "random_sort" /\ num_draws[t] = Len(draws[t])) =>
            LET n == Len(input[t])
                before == SubSeq(draws[t], 1, Len(draws[t]) - 1)
                handled == IF pc[t] = "rs_insert" THEN before ELSE draws[t] IN
            /\ pc[t] \in {"rs_loop", "rs_insert"} =>
                  /\ array[t] = input[t]
                  /\ result[t] = Pick(input[t], FirstDrawOrder(handled))
                  /\ used_indices[t] = {handled[k] : k \in DOMAIN handled}
            /\ pc[t] = "rs_insert" => Len(FirstDrawOrder(before)) < n
            /\ (Returned(t) /\ n >= 1) =>
                  /\ array[t] = Pick(input[t], FirstDrawOrder(draws[t]))
                  /\ Len(FirstDrawOrder(draws[t])) = n
                  /\ Len(FirstDrawOrder(before)) = n - 1

\* shuffle_random_sort returned a reordering after drawing some index twice.
C9_Witness ==
    /\ Returned(MainThread)
    /\ alg[MainThread] = "random_sort"
    /\ Len(input[MainThread]) = MaxLen
    /\ num_draws[MainThread] = Len(draws[MainThread])
    /\ Len(draws[MainThread]) > MaxLen
    /\ array[MainThread] # input[MainThread]

\* C10: shuffle_fisher_yates on n >= 1 elements runs the steps i = n - 1, ..,
\* 1 in that order, n - 1 in all, each drawing one j in [0, i] and swapping
\* positions i and j; positions above the current step never change again in
\* the call.
C10_StepState ==
    \A t \in Threads :
        (alg[t] = "fisher_yates" /\ Len(input[t]) >= 1) =>
            LET n == Len(input[t]) IN
            /\ pc[t] = "fy_loop" =>
                  i[t] \in 0..(n - 1) /\ num_draws[t] = n - 1 - i[t]
            /\ pc[t] = "fy_swap" =>
                  /\ i[t] \in 1..(n - 1)
                  /\ num_draws[t] = n - i[t]
                  /\ random_index[t] \in 0..i[t]
                  /\ random_index[t] = draws[t][Len(draws[t])]
            /\ Returned(t) =>
                  /\ num_draws[t] = n - 1
                  /\ \A k \in 1..(n - 1) : draws[t][k] \in 0..(n - k)

C10_StepAction ==
    \A t \in Threads :
        (alg[t] = "fisher_yates" /\ pc[t] \in {"fy_loop", "fy_swap"}
                                 /\ pc'[t] \in {"fy_loop", "fy_swap", "done"}) =>
            /\ \A p \in (i[t] + 1)..(Len(array[t]) - 1) :
                  At(array'[t], p) = At(array[t], p)
            /\ (pc[t] = "fy_swap" /\ pc'[t] = "fy_loop") =>
                  /\ i'[t] = i[t] - 1
                  /\ At(array'[t], i[t]) = At(array[t], random_index[t])
                  /\ At(array'[t], random_index[t]) = At(array[t], i[t])
                  /\ \A p \in 0..(Len(array[t]) - 1) :
                        p \notin {i[t], random_index[t]} =>
                            At(array'[t], p) = At(array[t], p)

C10_FisherYatesSteps == []C10_StepState /\ [][C10_StepAction]_vars

\* Every step of a call on MaxLen elements has run and reordered them.
C10_Witness ==
    /\ pc[MainThread] = "fy_loop"
    /\ alg[MainThread] = "fisher_yates"
    /\ i[MainThread] = 0
    /\ Len(input[MainThread]) = MaxLen
    /\ num_draws[MainThread] = MaxLen - 1
    /\ array[MainThread] # input[MainThread]

=============================================================================
